---- MODULE Spec2Model ----
(***************************************************************************)
(* Startup sequence of the libp2p relay daemon                             *)
(* (cmd/libp2p-relay-daemon/main.go): the main goroutine's steps, the two  *)
(* background HTTP listeners it spawns, and the address factory installed  *)
(* into the host.                                                          *)
(***************************************************************************)
EXTENDS Integers, Sequences, FiniteSets, TLC

\* ------------------------------------------------------------------ bounds

\* Longest network.announceAddrs list tried.
MaxAnnounce == 1
\* Longest candidate (listen) address list handed to the address factory.
MaxCandidates == 2

\* daemon.pprofPort value that disables the pprof listener.
PprofDisabled == -1

\* ------------------------------------------------------------- multiaddrs

\* Go's nil for values modelled as strings, and for values modelled as records.
Nil == "nil"
NilRec == [nil |-> TRUE]

\* Text forms of addresses that may appear in the configuration.
ValidAddrStrings ==
  { "/ip4/8.8.8.8/tcp/4001", "/ip4/127.0.0.1/tcp/4001",
    "/ip4/192.168.1.10/tcp/4001", "/ip4/169.254.7.7/tcp/4001" }

AddrStrings == ValidAddrStrings \cup { "not-a-multiaddr" }

\* A parsed multiaddr: the IPv4 octets and the TCP port.
MA(a, b, c, d, p) == [ip |-> <<a, b, c, d>>, tcp |-> p]

\* ma.StringCast: parses the text form; panics (here: NilRec) on a malformed one.
StringCast(s) ==
  CASE s = "/ip4/8.8.8.8/tcp/4001"      -> MA(8, 8, 8, 8, 4001)
    [] s = "/ip4/127.0.0.1/tcp/4001"    -> MA(127, 0, 0, 1, 4001)
    [] s = "/ip4/192.168.1.10/tcp/4001" -> MA(192, 168, 1, 10, 4001)
    [] s = "/ip4/169.254.7.7/tcp/4001"  -> MA(169, 254, 7, 7, 4001)
    [] OTHER                            -> NilRec

\* Addresses the transports may report as listen addresses.
Multiaddrs == { StringCast(s) : s \in ValidAddrStrings }

\* manet.IsPublicAddr: an IPv4 address outside the private (loopback, RFC1918,
\* CGNAT, link-local) and unroutable ranges.
InPrivate4(ip) ==
  \/ ip[1] = 127
  \/ ip[1] = 10
  \/ ip[1] = 100 /\ ip[2] >= 64 /\ ip[2] <= 127
  \/ ip[1] = 172 /\ ip[2] >= 16 /\ ip[2] <= 31
  \/ ip[1] = 192 /\ ip[2] = 168
  \/ ip[1] = 169 /\ ip[2] = 254

InUnroutable4(ip) ==
  \/ ip[1] = 0
  \/ ip[1] >= 224
  \/ ip[1] = 198 /\ ip[2] \in {18, 19}

IsPublicAddr(a) == ~InPrivate4(a.ip) /\ ~InUnroutable4(a.ip)

\* All sequences over S of length at most n.
SeqsUpTo(S, n) == UNION { [1..k -> S] : k \in 0..n }

\* --------------------------------------------------------- address factory

\* main.go:103-105: the static factory returns the captured list.
AddrsFactoryStaticIfAny(announce, addrs) ==
  IF addrs = <<>> THEN <<>> ELSE announce

AddrsFactoryStatic(announce, addrs) == announce

\* main.go:109-117: the automatic factory keeps the public candidates, in order.
AddrsFactoryAutoAll(addrs) == addrs

AddrsFactoryAuto(addrs) == SelectSeq(addrs, IsPublicAddr)

\* ------------------------------------------------------------ configuration

\* relayV2.resources and acl.* are passed through untouched.
RelayResources == { "DefaultResources", "CustomResources" }
ACLConfig == "cfg.ACL"

Configs ==
  [ AnnounceAddrs : SeqsUpTo(AddrStrings, MaxAnnounce),
    RelayEnabled  : BOOLEAN,
    PprofPort     : {PprofDisabled, 6060},
    Resources     : RelayResources,
    ACL           : {ACLConfig} ]

NoOpts ==
  [ base |-> FALSE, privateNetwork |-> FALSE, addrsFactory |-> "none",
    announce |-> <<>>, connMgr |-> FALSE, routing |-> FALSE ]

\* ------------------------------------------------------------------- state

VARIABLES
  pskPath,      \* -swarmkey flag: "" when not given
  pc,           \* position of the main goroutine
  exit,         \* "running", or how the process ended: "panic" | "fatal"
  failedAt,     \* the step whose failure ended the process, "none" otherwise
  steps,        \* startup steps completed so far, in order
  cfg,          \* loaded configuration, NilRec before LoadConfig
  privk,        \* loaded identity
  rmgr,         \* resource manager
  psk,          \* loaded swarm key, Nil when none
  pskErr,       \* LoadSwarmKey returned an error
  opts,         \* libp2p options accumulated so far
  cm,           \* connection manager
  kaddht,       \* DHT handle assigned by the routing factory
  host,         \* constructed host, NilRec before
  bootstraps,   \* number of kaddht.Bootstrap calls
  bootstrapErr, \* the Bootstrap call returned an error
  acl,          \* ACL built by NewACL
  relay,        \* relay service handle
  prom,         \* metrics goroutine: "idle" | "spawned" | "listening" | "failed"
  pprof,        \* pprof goroutine: "idle" | "spawned" | "listening" | "returned" | "failed"
  candidates,   \* addresses last handed to the address factory
  announced     \* addresses the host announces

vars ==
  << pskPath, pc, exit, failedAt, steps, cfg, privk, rmgr, psk, pskErr, opts,
     cm, kaddht, host, bootstraps, bootstrapErr, acl, relay, prom, pprof,
     candidates, announced >>

mainVars ==
  << pc, steps, cfg, privk, rmgr, psk, pskErr, opts, cm, kaddht, host,
     bootstraps, bootstrapErr, acl, relay, candidates, announced >>

Init ==
  /\ pskPath \in {"", "swarm.key"}
  /\ pc = "LoadConfig"
  /\ exit = "running"
  /\ failedAt = "none"
  /\ steps = <<>>
  /\ cfg = NilRec
  /\ privk = Nil
  /\ rmgr = Nil
  /\ psk = Nil
  /\ pskErr = FALSE
  /\ opts = NoOpts
  /\ cm = Nil
  /\ kaddht = Nil
  /\ host = NilRec
  /\ bootstraps = 0
  /\ bootstrapErr = FALSE
  /\ acl = NilRec
  /\ relay = NilRec
  /\ prom = "idle"
  /\ pprof = "idle"
  /\ candidates = <<>>
  /\ announced = <<>>

\* ------------------------------------------------------------ main goroutine

\* The main goroutine is at step s and the process is alive.
At(s) == pc = s /\ exit = "running"

\* Step s completed; continue at step next.
Goto(s, next) == pc' = next /\ steps' = Append(steps, s)

\* panic(err) on the main goroutine at step s.
Panic(s) == exit' = "panic" /\ failedAt' = s /\ UNCHANGED <<pc, steps>>

\* log.Fatal(err) on the main goroutine at step s.
Fatal(s) == exit' = "fatal" /\ failedAt' = s /\ UNCHANGED <<pc, steps>>

Running == UNCHANGED <<exit, failedAt>>

\* main.go:40-43
LoadConfig ==
  /\ At("LoadConfig")
  /\ \/ /\ \E c \in Configs : cfg' = c
        /\ Goto("LoadConfig", "LoadIdentity")
        /\ Running
     \/ /\ Panic("LoadConfig")
        /\ cfg' = cfg
  /\ UNCHANGED << pskPath, privk, rmgr, psk, pskErr, opts, cm, kaddht, host,
                  bootstraps, bootstrapErr, acl, relay, prom, pprof,
                  candidates, announced >>

\* main.go:44-47
LoadIdentity ==
  /\ At("LoadIdentity")
  /\ \/ /\ privk' = "privk"
        /\ Goto("LoadIdentity", "GoMetrics")
        /\ Running
     \/ /\ Panic("LoadIdentity")
        /\ privk' = privk
  /\ UNCHANGED << pskPath, cfg, rmgr, psk, pskErr, opts, cm, kaddht, host,
                  bootstraps, bootstrapErr, acl, relay, prom, pprof,
                  candidates, announced >>

\* main.go:49-53: register /metrics and spawn the metrics goroutine.
GoMetrics ==
  /\ At("GoMetrics")
  /\ prom' = "spawned"
  /\ Goto("GoMetrics", "NewStatsTraceReporter")
  /\ Running
  /\ UNCHANGED << pskPath, cfg, privk, rmgr, psk, pskErr, opts, cm, kaddht,
                  host, bootstraps, bootstrapErr, acl, relay, pprof,
                  candidates, announced >>

\* main.go:55-60
NewStatsTraceReporter ==
  /\ At("NewStatsTraceReporter")
  /\ \/ /\ Goto("NewStatsTraceReporter", "NewResourceManager")
        /\ Running
     \/ Fatal("NewStatsTraceReporter")
  /\ UNCHANGED << pskPath, cfg, privk, rmgr, psk, pskErr, opts, cm, kaddht,
                  host, bootstraps, bootstrapErr, acl, relay, prom, pprof,
                  candidates, announced >>

\* main.go:61-64
NewResourceManager ==
  /\ At("NewResourceManager")
  /\ \/ /\ rmgr' = "rmgr"
        /\ Goto("NewResourceManager", "AppendOpts")
        /\ Running
     \/ /\ Fatal("NewResourceManager")
        /\ rmgr' = rmgr
  /\ UNCHANGED << pskPath, cfg, privk, psk, pskErr, opts, cm, kaddht, host,
                  bootstraps, bootstrapErr, acl, relay, prom, pprof,
                  candidates, announced >>

\* main.go:66-82: identity, listen addresses, resource manager, transports.
AppendOpts ==
  /\ At("AppendOpts")
  /\ opts' = [opts EXCEPT !.base = TRUE]
  /\ Goto("AppendOpts", "LoadPSK")
  /\ Running
  /\ UNCHANGED << pskPath, cfg, privk, rmgr, psk, pskErr, cm, kaddht, host,
                  bootstraps, bootstrapErr, acl, relay, prom, pprof,
                  candidates, announced >>

\* relaydaemon.LoadSwarmKey: no path gives no key and no error; a path gives
\* the key, or an error when the file is unreadable or malformed.
LoadSwarmKey(path) ==
  IF path = ""
    THEN { [psk |-> Nil, err |-> FALSE] }
    ELSE { [psk |-> "psk", err |-> FALSE], [psk |-> Nil, err |-> TRUE] }

\* main.go:84-94: the flag pointer is never nil; an error is printed only.
LoadPSK ==
  /\ At("LoadPSK")
  /\ \E r \in LoadSwarmKey(pskPath) :
       /\ pskErr' = r.err
       /\ psk' = r.psk
       /\ opts' = IF r.psk # Nil
                    THEN [opts EXCEPT !.privateNetwork = TRUE]
                    ELSE opts
  /\ Goto("LoadPSK", "AddrsFactoryOpt")
  /\ Running
  /\ UNCHANGED << pskPath, cfg, privk, rmgr, cm, kaddht, host, bootstraps,
                  bootstrapErr, acl, relay, prom, pprof, candidates,
                  announced >>

\* main.go:97-101: the configured strings parsed in order.
CastAll(ss) == [i \in 1..Len(ss) |-> StringCast(ss[i])]

\* main.go:96: which factory the configuration selects.
StaticSelected(c) == Len(c.AnnounceAddrs) > 0

\* main.go:96-119: install the static or the automatic address factory.
AddrsFactoryOpt ==
  /\ At("AddrsFactoryOpt")
  /\ IF StaticSelected(cfg)
       THEN IF \E i \in 1..Len(cfg.AnnounceAddrs) :
                 StringCast(cfg.AnnounceAddrs[i]) = NilRec
              THEN /\ Panic("AddrsFactoryOpt")
                   /\ opts' = opts
              ELSE /\ opts' = [opts EXCEPT !.addrsFactory = "static",
                                           !.announce = CastAll(cfg.AnnounceAddrs)]
                   /\ Goto("AddrsFactoryOpt", "NewConnManager")
                   /\ Running
       ELSE /\ opts' = [opts EXCEPT !.addrsFactory = "auto"]
            /\ Goto("AddrsFactoryOpt", "NewConnManager")
            /\ Running
  /\ UNCHANGED << pskPath, cfg, privk, rmgr, psk, pskErr, cm, kaddht, host,
                  bootstraps, bootstrapErr, acl, relay, prom, pprof,
                  candidates, announced >>

\* main.go:121-128
NewConnManager ==
  /\ At("NewConnManager")
  /\ \/ /\ cm' = "cm"
        /\ Goto("NewConnManager", "RoutingOpts")
        /\ Running
     \/ /\ Panic("NewConnManager")
        /\ cm' = cm
  /\ UNCHANGED << pskPath, cfg, privk, rmgr, psk, pskErr, opts, kaddht, host,
                  bootstraps, bootstrapErr, acl, relay, prom, pprof,
                  candidates, announced >>

\* main.go:130-141: the routing factory closure and the connection manager.
RoutingOpts ==
  /\ At("RoutingOpts")
  /\ opts' = [opts EXCEPT !.connMgr = TRUE, !.routing = TRUE]
  /\ Goto("RoutingOpts", "NewHost")
  /\ Running
  /\ UNCHANGED << pskPath, cfg, privk, rmgr, psk, pskErr, cm, kaddht, host,
                  bootstraps, bootstrapErr, acl, relay, prom, pprof,
                  candidates, announced >>

\* The factory installed in o, applied to the candidate addresses.
ApplyAddrsFactory(o, addrs) ==
  CASE o.addrsFactory = "static" -> AddrsFactoryStatic(o.announce, addrs)
    [] o.addrsFactory = "auto"   -> AddrsFactoryAuto(addrs)
    [] OTHER                     -> addrs

\* The host libp2p.New builds from the options.
BuiltHost(o, id) ==
  [ id |-> id, privateNetwork |-> o.privateNetwork,
    addrsFactory |-> o.addrsFactory, announce |-> o.announce,
    connMgr |-> o.connMgr, routing |-> o.routing ]

\* main.go:143-146: libp2p.New runs the routing factory (132-136), which
\* assigns kaddht, and listens; a failure may come before or after the factory.
NewHostIgnoringError ==
  /\ At("NewHost")
  /\ \/ /\ kaddht' = "dht"
        /\ host' = BuiltHost(opts, privk)
        /\ \E c \in SeqsUpTo(Multiaddrs, MaxCandidates) :
             /\ candidates' = c
             /\ announced' = ApplyAddrsFactory(opts, c)
        /\ Running
     \/ /\ kaddht' \in {Nil, "dht"}
        /\ failedAt' = "NewHost"
        /\ UNCHANGED << exit, host, candidates, announced >>
  /\ Goto("NewHost", "Bootstrap")
  /\ UNCHANGED << pskPath, cfg, privk, rmgr, psk, pskErr, opts, cm,
                  bootstraps, bootstrapErr, acl, relay, prom, pprof >>

NewHost ==
  /\ At("NewHost")
  /\ \/ /\ kaddht' = "dht"
        /\ host' = BuiltHost(opts, privk)
        /\ \E c \in SeqsUpTo(Multiaddrs, MaxCandidates) :
             /\ candidates' = c
             /\ announced' = ApplyAddrsFactory(opts, c)
        /\ Goto("NewHost", "Bootstrap")
        /\ Running
     \/ /\ kaddht' \in {Nil, "dht"}
        /\ Panic("NewHost")
        /\ UNCHANGED << host, candidates, announced >>
  /\ UNCHANGED << pskPath, cfg, privk, rmgr, psk, pskErr, opts, cm,
                  bootstraps, bootstrapErr, acl, relay, prom, pprof >>

\* main.go:147-150: an error from Bootstrap panics.
Bootstrap ==
  /\ At("Bootstrap")
  /\ bootstraps' = bootstraps + 1
  /\ \/ /\ kaddht # Nil
        /\ bootstrapErr' = FALSE
        /\ Goto("Bootstrap", "GoPprof")
        /\ Running
     \/ /\ bootstrapErr' = TRUE
        /\ Panic("Bootstrap")
  /\ UNCHANGED << pskPath, cfg, privk, rmgr, psk, pskErr, opts, cm, kaddht,
                  host, acl, relay, prom, pprof, candidates, announced >>

\* main.go:151-158: print the announced addresses, spawn the pprof goroutine.
GoPprof ==
  /\ At("GoPprof")
  /\ announced' = ApplyAddrsFactory(host, candidates)
  /\ pprof' = "spawned"
  /\ Goto("GoPprof", "NewACL")
  /\ Running
  /\ UNCHANGED << pskPath, cfg, privk, rmgr, psk, pskErr, opts, cm, kaddht,
                  host, bootstraps, bootstrapErr, acl, relay, prom,
                  candidates >>

\* main.go:160-163
NewACL ==
  /\ At("NewACL")
  /\ \/ /\ acl' = [host |-> host, config |-> cfg.ACL]
        /\ Goto("NewACL", "RelayV2")
        /\ Running
     \/ /\ Panic("NewACL")
        /\ acl' = acl
  /\ UNCHANGED << pskPath, cfg, privk, rmgr, psk, pskErr, opts, cm, kaddht,
                  host, bootstraps, bootstrapErr, relay, prom, pprof,
                  candidates, announced >>

\* main.go:165: the relay switch.
RelayEnabledAlways(c) == TRUE

RelayEnabled(c) == c.RelayEnabled

\* main.go:165-177: start the relay service when enabled, then park.
RelayV2 ==
  /\ At("RelayV2")
  /\ IF RelayEnabled(cfg)
       THEN \/ /\ relay' = [host |-> host, resources |-> cfg.Resources,
                            acl |-> acl]
               /\ Goto("RelayV2", "parked")
               /\ Running
            \/ /\ Panic("RelayV2")
               /\ relay' = relay
       ELSE /\ relay' = relay
            /\ Goto("RelayV2", "parked")
            /\ Running
  /\ UNCHANGED << pskPath, cfg, privk, rmgr, psk, pskErr, opts, cm, kaddht,
                  host, bootstraps, bootstrapErr, acl, prom, pprof,
                  candidates, announced >>

\* ----------------------------------------------------------------- the host

\* s without its i-th element.
RemoveAt(s, i) == SubSeq(s, 1, i - 1) \o SubSeq(s, i + 1, Len(s))

\* A listener is bound or closed: the transports report a changed candidate
\* list and the host recomputes what it announces through the installed
\* factory (main.go:103-105, 109-117).
HostAddrs ==
  /\ exit = "running"
  /\ host # NilRec
  /\ \/ /\ Len(candidates) < MaxCandidates
        /\ \E a \in Multiaddrs : candidates' = Append(candidates, a)
     \/ \E i \in 1..Len(candidates) : candidates' = RemoveAt(candidates, i)
  /\ announced' = ApplyAddrsFactory(host, candidates')
  /\ UNCHANGED << pskPath, pc, exit, failedAt, steps, cfg, privk, rmgr, psk,
                  pskErr, opts, cm, kaddht, host, bootstraps, bootstrapErr,
                  acl, relay, prom, pprof >>

\* ------------------------------------------------------ background listeners

\* main.go:50-52: the metrics goroutine registers its handler and calls
\* http.ListenAndServe.
MetricsListen ==
  /\ exit = "running"
  /\ prom = "spawned"
  /\ prom' = "listening"
  /\ UNCHANGED << pskPath, exit, failedAt, pprof, mainVars >>

\* main.go:52: ListenAndServe returned (it only returns an error): log.Fatal.
MetricsFatal ==
  /\ exit = "running"
  /\ prom = "listening"
  /\ prom' = "failed"
  /\ exit' = "fatal"
  /\ failedAt' = "metrics"
  /\ UNCHANGED << pskPath, pprof, mainVars >>

\* main.go:180-187: return when disabled, else call http.ListenAndServe.
PprofStart ==
  /\ exit = "running"
  /\ pprof = "spawned"
  /\ pprof' = IF cfg.PprofPort = PprofDisabled THEN "returned" ELSE "listening"
  /\ UNCHANGED << pskPath, exit, failedAt, prom, mainVars >>

\* Errors ListenAndServe can return here: nothing ever shuts the server down.
ListenErrors == { "EADDRINUSE", "EACCES" }

\* main.go:187-196: what the switch does with ListenAndServe's error.
PprofOnError(err) ==
  IF err \in { "nil", "ErrServerClosed" } THEN "returned" ELSE "panic"

\* main.go:187-196: ListenAndServe returned.
PprofError ==
  /\ exit = "running"
  /\ pprof = "listening"
  /\ \E err \in ListenErrors :
       IF PprofOnError(err) = "panic"
         THEN /\ pprof' = "failed"
              /\ exit' = "panic"
              /\ failedAt' = "pprof"
         ELSE /\ pprof' = "returned"
              /\ UNCHANGED << exit, failedAt >>
  /\ UNCHANGED << pskPath, prom, mainVars >>

\* ------------------------------------------------------------------ claims

Range(s) == { s[i] : i \in 1..Len(s) }

Done(s) == s \in Range(steps)

\* C1: when configuration loading, identity loading, connection-manager
\* construction or host construction fails, the process ends at that step and
\* the main goroutine never moves past it: no host, no routing bootstrap, no
\* pprof listener, no ACL and no relay service.
C1_StartupFatalStops ==
  failedAt \in { "LoadConfig", "LoadIdentity", "NewConnManager", "NewHost" } =>
    /\ exit = "panic"
    /\ pc = failedAt
    /\ ~Done(failedAt)
    /\ host = NilRec
    /\ bootstraps = 0
    /\ pprof = "idle"
    /\ acl = NilRec
    /\ relay = NilRec

\* Host construction failed after the routing factory had assigned the handle.
C1_Witness ==
  /\ failedAt = "NewHost"
  /\ exit = "panic"
  /\ kaddht = "dht"
  /\ bootstraps = 0

\* C2: an error returned by the routing bootstrap call does not end the
\* process.
C2_BootstrapFailureNotFatal ==
  bootstrapErr => failedAt # "Bootstrap" /\ exit = "running"

\* C3: when a swarm-key path is given and loading it fails, no host is ever
\* built without the secret; without a path there is no secret and no error;
\* the host is a private-network host exactly when a secret was loaded.
C3_SecretLoadFailsClosed ==
  /\ pskErr => host = NilRec
  /\ (pskPath = "" /\ Done("LoadPSK")) => (psk = Nil /\ ~pskErr)
  /\ host # NilRec => (host.privateNetwork <=> psk # Nil)

\* C4: a failure of the metrics listener or of the pprof listener leaves the
\* process running.
C4_ListenerFailureOnlyLogged ==
  (prom = "failed" \/ pprof = "failed") => exit = "running"

\* C5: with a non-empty network.announceAddrs list L the host announces L
\* (parsed, in order) whatever the candidate addresses are.
C5_StaticOverride ==
  (host # NilRec /\ Len(cfg.AnnounceAddrs) > 0) =>
    announced = CastAll(cfg.AnnounceAddrs)

\* Static mode with a non-empty candidate list disjoint from L.
C5_Witness ==
  /\ host # NilRec
  /\ exit = "running"
  /\ Len(cfg.AnnounceAddrs) > 0
  /\ Len(candidates) = MaxCandidates
  /\ Range(candidates) \cap Range(announced) = {}
  /\ announced = CastAll(cfg.AnnounceAddrs)

IsLoopback(a) == a.ip[1] = 127

IsPrivateNet(a) ==
  \/ a.ip[1] = 10
  \/ a.ip[1] = 172 /\ a.ip[2] \in 16..31
  \/ a.ip[1] = 192 /\ a.ip[2] = 168

IsLinkLocal(a) == a.ip[1] = 169 /\ a.ip[2] = 254

\* C6: with an empty network.announceAddrs the host announces exactly the
\* public candidates, in candidate order: a subset of the candidates with no
\* loopback, private or link-local address; and exactly one of the two
\* factories is installed, the static one iff the list is non-empty.
C6_AutomaticMode ==
  /\ (host # NilRec /\ Len(cfg.AnnounceAddrs) = 0) =>
       /\ announced = SelectSeq(candidates, IsPublicAddr)
       /\ Range(announced) \subseteq Range(candidates)
       /\ \A a \in Range(announced) :
            ~IsLoopback(a) /\ ~IsPrivateNet(a) /\ ~IsLinkLocal(a)
  /\ Done("AddrsFactoryOpt") =>
       /\ opts.addrsFactory \in { "static", "auto" }
       /\ opts.addrsFactory = "static" <=> Len(cfg.AnnounceAddrs) > 0
  /\ host # NilRec => host.addrsFactory = opts.addrsFactory

\* Automatic mode with one public and one non-public candidate.
C6_Witness ==
  /\ host # NilRec
  /\ exit = "running"
  /\ Len(cfg.AnnounceAddrs) = 0
  /\ Len(candidates) = 2
  /\ ~IsPublicAddr(candidates[1])
  /\ announced = << candidates[2] >>

\* C7: a relay handle exists only when relayV2.enabled is set, and is then
\* wired to the live host, to the ACL built against that host and to the
\* configured resources; once startup has completed the handle exists iff
\* the switch is set.
C7_RelayOptIn ==
  /\ relay # NilRec =>
       /\ cfg.RelayEnabled
       /\ host # NilRec
       /\ acl # NilRec
       /\ acl.host = host
       /\ relay.host = host
       /\ relay.acl = acl
       /\ relay.resources = cfg.Resources
  /\ pc = "parked" => (relay # NilRec <=> cfg.RelayEnabled)

\* Startup completed with the relay service running.
C7_Witness ==
  /\ pc = "parked"
  /\ exit = "running"
  /\ cfg.RelayEnabled
  /\ relay # NilRec

StartupOrder ==
  << "LoadConfig", "LoadIdentity", "GoMetrics", "NewStatsTraceReporter",
     "NewResourceManager", "AppendOpts", "LoadPSK", "AddrsFactoryOpt",
     "NewConnManager", "RoutingOpts", "NewHost", "Bootstrap", "GoPprof",
     "NewACL", "RelayV2" >>

\* The steps completed are a prefix of the startup order, each depending on
\* what the earlier ones built, and bootstrap is triggered at most once.
C8_Order ==
  /\ Len(steps) <= Len(StartupOrder)
  /\ steps = SubSeq(StartupOrder, 1, Len(steps))
  /\ host # NilRec =>
       /\ privk # Nil /\ rmgr # Nil /\ cm # Nil /\ kaddht # Nil
       /\ host.addrsFactory # "none" /\ host.routing /\ host.connMgr
  /\ bootstraps <= 1
  /\ bootstraps = 1 => host # NilRec
  /\ acl # NilRec => (bootstraps = 1 /\ acl.host = host)
  /\ relay # NilRec => acl # NilRec
  /\ pc = "parked" <=> Len(steps) = Len(StartupOrder)

\* C8: the startup steps run in the fixed order, none skipped or reordered,
\* and once the main goroutine has parked the process does not end by itself.
C8_OrderedStartupThenParks ==
  /\ []C8_Order
  /\ [][(pc = "parked" /\ exit = "running") => exit' = "running"]_vars

Next ==
  \/ LoadConfig
  \/ LoadIdentity
  \/ GoMetrics
  \/ NewStatsTraceReporter
  \/ NewResourceManager
  \/ AppendOpts
  \/ LoadPSK
  \/ AddrsFactoryOpt
  \/ NewConnManager
  \/ RoutingOpts
  \/ NewHost
  \/ Bootstrap
  \/ GoPprof
  \/ NewACL
  \/ RelayV2
  \/ HostAddrs
  \/ MetricsListen
  \/ MetricsFatal
  \/ PprofStart
  \/ PprofError

Spec == Init /\ [][Next]_vars

====
